---- MODULE Spec2Model ----
(***************************************************************************)
(* Text-to-speech demo application: the playback state machine             *)
(* (TextToSpeechManager), the page component that drives it                *)
(* (TextToSpeechApp), the player and settings widgets, and the export      *)
(* path (createAudioBlobWithRecording / handleDownload).                   *)
(*                                                                         *)
(* Numbers that the program keeps as reals with one decimal (rate, pitch,  *)
(* volume) are kept in tenths: 10 stands for 1.0.                          *)
(*                                                                         *)
(* The browser's speech synthesis engine is the environment.  It keeps a   *)
(* queue of utterances, speaks the front one, and reports start / end /    *)
(* error events.  Events of one utterance are delivered in the order they  *)
(* were fired; events of different utterances travel independently and may *)
(* be delivered in either order.                                           *)
(***************************************************************************)
EXTENDS Integers, Sequences, FiniteSets, TLC

\* ------------------------------------------------------------------ bounds
MaxUtterances == 2
MaxTextLen == 1

MaxEstimateLen == 4
MaxTicks == 5

\* --------------------------------------------------------------- constants
MAX_CHARACTER_LIMIT == 5000
\* estimateDuration: 155 words per minute at rate 1
WordsPerMinute == 155
\* the POST endpoints: the longest text they accept
maxTextLength == 5000

Chars == {" ", "a"}
\* slider positions: rate and pitch 0.5 .. 2, volume 0 .. 1
RateValues == {5, 10}
PitchValues == {10, 20}
VolumeValues == {0, 10}

UtteranceIds == 1..MaxUtterances

RECURSIVE SeqsUpTo(_)
SeqsUpTo(n) ==
    IF n = 0 THEN {<<>>}
    ELSE LET shorter == SeqsUpTo(n - 1)
         IN  shorter \cup {Append(s, c) : s \in {t \in shorter : Len(t) = n - 1}, c \in Chars}

Texts == SeqsUpTo(MaxTextLen)

\* the texts and rates the duration estimate is computed for
EstimateTexts == SeqsUpTo(MaxEstimateLen)
EstimateRates == {5, 10, 15, 20}

VARIABLES
    mgr,            \* TextToSpeechManager: isPlaying, isPaused, utterance
    synth,          \* window.speechSynthesis: queue, speaking, paused
    events,         \* events fired by the engine and not yet delivered, per utterance
    utts,           \* per utterance: who created it, and the promise speak() returned for it
    nextId,         \* number of utterances created so far
    text,           \* TextToSpeechApp text
    error,          \* TextToSpeechApp error
    voiceSettings,  \* TextToSpeechApp voiceSettings
    isPlaying,      \* TextToSpeechApp isPlaying (polled copy)
    isPaused,       \* TextToSpeechApp isPaused (polled copy)
    isDownloading,  \* TextToSpeechApp isDownloading
    rec,            \* the export in progress (handleDownload / createAudioBlobWithRecording)
    uncaught,       \* an exception or rejection escaped a command handler
    player,         \* AudioPlayer: duration, currentTime, progress
    http,           \* the request the endpoint answered last, and its response
    lastOp          \* the handler or callback that ran last, and the manager state it ran in

vars == <<mgr, synth, events, utts, nextId, text, error, voiceSettings,
          isPlaying, isPaused, isDownloading, rec, uncaught, player, http, lastOp>>

\* ------------------------------------------------------------ pure helpers

\* String.prototype.trim on a sequence of characters
RECURSIVE TrimStart(_)
TrimStart(s) ==
    IF s # <<>> /\ Head(s) = " " THEN TrimStart(Tail(s)) ELSE s

RECURSIVE TrimEnd(_)
TrimEnd(s) ==
    IF s # <<>> /\ s[Len(s)] = " " THEN TrimEnd(SubSeq(s, 1, Len(s) - 1)) ELSE s

\* a text used as it is where the code trims it
Untrimmed(s) == s

Trim(s) == TrimEnd(TrimStart(s))

\* String.prototype.split(/\s+/): the text is cut at every run of white space; a run
\* at the start or at the end of the text leaves an empty token there, and the empty
\* text is one empty token
RECURSIVE SplitWhitespace(_)
SplitWhitespace(s) ==
    IF s = <<>> THEN << <<>> >>
    ELSE IF Head(s) = " " THEN << <<>> >> \o SplitWhitespace(TrimStart(s))
    ELSE LET rest == SplitWhitespace(Tail(s))
         IN  << <<Head(s)>> \o Head(rest) >> \o Tail(rest)

\* real numbers are kept as fractions num / den with den > 0
Rat(n, d) == [num |-> n, den |-> d]
RatLeq(a, b) == a.num * b.den <= b.num * a.den
RatEq(a, b) == a.num * b.den = b.num * a.den
\* no clamp: the first number as it is
Unclamped(a, b) == a

MathMin(a, b) == IF RatLeq(a, b) THEN a ELSE b

\* an estimate that multiplies by the rate where the code divides by it
estimateDurationTimesRate(t, rate) ==
    LET wordCount == Len(SplitWhitespace(t))
    IN  Rat(wordCount * 60 * rate, WordsPerMinute * 10)

\* estimateDuration in seconds; the rate is in tenths, so wordsPerMinute is
\* WordsPerMinute * rate / 10
estimateDuration(t, rate) ==
    LET wordCount == Len(SplitWhitespace(t))
    IN  Rat(wordCount * 60 * 10, WordsPerMinute * rate)

\* the progress the tick computes for the new time (in tenths of a second)
ProgressOf(newTime, duration) ==
    IF duration.num > 0
    THEN MathMin(Rat(newTime * duration.den * 100, 10 * duration.num), Rat(100, 1))
    ELSE Rat(0, 1)

\* AudioPlayer effect on [text, rate]
DurationEffect(p, t, rate) == [p EXCEPT !.duration = estimateDuration(t, rate)]

\* AudioPlayer effect on [isPlaying, isPaused]: it runs when one of them changed
ResetEffect(p, wasPlaying, wasPaused, playing, paused) ==
    IF (playing # wasPlaying \/ paused # wasPaused) /\ ~playing /\ ~paused
    THEN [p EXCEPT !.progress = Rat(0, 1), !.currentTime = 0]
    ELSE p

\* JavaScript  a || b  on numbers: 0 is falsy
OrDefault(a, b) == IF a = 0 THEN b ELSE a

Range(q) == {q[i] : i \in 1..Len(q)}

NoUtterance == [id |-> 0, text |-> <<>>, rate |-> 0, pitch |-> 0, volume |-> 0]

NoError == "null"

\* ------------------------------------------------------- the POST endpoints

\* A text of a request body is kept as its runs of equal characters, <<c, n>> for n
\* times the character c, so that texts around the limit of 5000 characters can be
\* told apart.
RunLengths == {1, maxTextLength - 1, maxTextLength, maxTextLength + 1}
Runs == {<<c, n>> : c \in Chars, n \in RunLengths}
RunTexts ==
    {<<>>} \cup {<<r>> : r \in Runs}
           \cup {t \in Runs \X Runs : t[1][1] # t[2][1]}

\* String.prototype.length and String.prototype.trim on runs
RECURSIVE RunsLength(_)
RunsLength(t) == IF t = <<>> THEN 0 ELSE Head(t)[2] + RunsLength(Tail(t))

RunsTrimStart(t) == IF t # <<>> /\ Head(t)[1] = " " THEN Tail(t) ELSE t
RunsTrimEnd(t) == IF t # <<>> /\ t[Len(t)][1] = " " THEN SubSeq(t, 1, Len(t) - 1) ELSE t
RunsTrim(t) == RunsTrimEnd(RunsTrimStart(t))

\* the values the text of a body can have: none, a number, a string
TextValues ==
    {[type |-> "undefined", number |-> 0, runs |-> <<>>]}
    \cup {[type |-> "number", number |-> n, runs |-> <<>>] : n \in {0, 7}}
    \cup {[type |-> "string", number |-> 0, runs |-> t] : t \in RunTexts}

\* rate, pitch and volume of a body, in tenths, or none
Undefined == [type |-> "undefined", number |-> 0]
Numbers(S) == {[type |-> "number", number |-> n] : n \in S}
\* a JSON string that is not a numeral, such as "fast"
NotNumeral == [type |-> "string", number |-> 0]
BodyRates == {Undefined, NotNumeral} \cup Numbers({0, 10, 200})
BodyPitches == {Undefined} \cup Numbers({30})
BodyVolumes == {Undefined} \cup Numbers({20})

\* json is FALSE for a body that request.json() cannot parse
Bodies ==
    [json : {TRUE}, text : TextValues, rate : BodyRates, pitch : BodyPitches,
     volume : BodyVolumes]
    \cup {[json |-> FALSE, text |-> [type |-> "undefined", number |-> 0, runs |-> <<>>],
           rate |-> Undefined, pitch |-> Undefined, volume |-> Undefined]}

\* destructuring with a default:  { rate = 1 } = body
WithDefault(v, d) == IF v.type = "undefined" THEN [type |-> "number", number |-> d] ELSE v

MathMax(a, b) == IF a >= b THEN a ELSE b
MathMinInt(a, b) == IF a <= b THEN a ELSE b

\* Math.max(lo, Math.min(hi, v)): the value is converted to a number first, and a
\* string that is not a numeral converts to NaN, which Math.min and Math.max return
NaN == [type |-> "NaN", number |-> 0]
Clamp(lo, hi, v) ==
    IF v.type = "number"
    THEN [type |-> "number", number |-> MathMax(lo, MathMinInt(hi, v.number))]
    ELSE NaN

\* !text : undefined, the number 0 and the empty string are falsy
Falsy(v) ==
    \/ v.type = "undefined"
    \/ v.type = "number" /\ v.number = 0
    \/ v.type = "string" /\ v.runs = <<>>

TextRequired == "Text is required and must be a non-empty string"
TextTooLong == "Text must be less than 5000 characters"

NoSettings == [text |-> <<>>, rate |-> NaN, pitch |-> NaN, volume |-> NaN]
Response(status, err, settings) == [status |-> status, error |-> err, settings |-> settings]

\* a length check that also refuses a text of exactly the limit
TooLongInclusive(len) == len >= maxTextLength

TooLong(len) == len > maxTextLength

\* POST of /api/text-to-speech
POST(body) ==
    IF ~body.json THEN Response(500, "Internal server error", NoSettings)
    ELSE IF Falsy(body.text) \/ body.text.type # "string"
            \/ RunsLength(RunsTrim(body.text.runs)) = 0
    THEN Response(400, TextRequired, NoSettings)
    ELSE IF TooLong(RunsLength(body.text.runs))
    THEN Response(400, TextTooLong, NoSettings)
    ELSE Response(200, "",
                  [text   |-> RunsTrim(body.text.runs),
                   rate   |-> Clamp(1, 100, WithDefault(body.rate, 10)),
                   pitch  |-> Clamp(0, 20, WithDefault(body.pitch, 10)),
                   volume |-> Clamp(0, 10, WithDefault(body.volume, 10))])

\* POST of the audio generation route: the same validation, then 501
POSTAudio(body) ==
    IF ~body.json THEN Response(500, "Failed to process request", NoSettings)
    ELSE IF Falsy(body.text) \/ body.text.type # "string"
            \/ RunsLength(RunsTrim(body.text.runs)) = 0
    THEN Response(400, TextRequired, NoSettings)
    ELSE IF TooLong(RunsLength(body.text.runs))
    THEN Response(400, TextTooLong, NoSettings)
    ELSE Response(501, "Server-side TTS requires external service integration", NoSettings)

\* no request was answered yet
NoExchange ==
    [route |-> "none",
     request |-> [json |-> FALSE, text |-> [type |-> "undefined", number |-> 0, runs |-> <<>>],
                  rate |-> Undefined, pitch |-> Undefined, volume |-> Undefined],
     response |-> Response(0, "", NoSettings)]
SpeechError == "Speech synthesis error"
DownloadError == "Download Error"

\* ------------------------------------------------ TextToSpeechManager methods

createUtterance(id, options) ==
    [id     |-> id,
     text   |-> options.text,
     rate   |-> OrDefault(options.rate, 10),
     pitch  |-> OrDefault(options.pitch, 10),
     volume |-> OrDefault(options.volume, 10)]

\* speechSynthesis.cancel(): the queue is emptied; the paused flag is kept
SynthCancel(s) == [s EXCEPT !.queue = <<>>, !.speaking = FALSE]

\* every utterance removed by cancel() gets an error event (interrupted / canceled)
CancelEvents(s, ev) ==
    [u \in UtteranceIds |-> IF u \in Range(s.queue) THEN Append(ev[u], "error") ELSE ev[u]]

SynthSpeak(s, id) == [s EXCEPT !.queue = Append(@, id)]

\* a stop() that forgets the paused flag
MgrStopKeepsPaused(m) == [m EXCEPT !.isPlaying = FALSE]

MgrStop(m) == [m EXCEPT !.isPlaying = FALSE, !.isPaused = FALSE]

MgrOnStart(m) == [m EXCEPT !.isPlaying = TRUE, !.isPaused = FALSE]
\* an onend that leaves isPlaying set
MgrOnEndKeepsPlaying(m) == [m EXCEPT !.isPaused = FALSE]

MgrOnEnd(m) == [m EXCEPT !.isPlaying = FALSE, !.isPaused = FALSE]
MgrOnError(m) == [m EXCEPT !.isPlaying = FALSE, !.isPaused = FALSE]

\* what is known of an utterance: who created it, the promise speak() returned for
\* it, how many times resolve() or reject() was called on that promise, and which
\* call removed it from the engine's queue by cancel(): "no", "stop" or "speak"
NoRecord == [owner |-> "none", promise |-> "none", settles |-> 0, cancelled |-> "no"]
NewRecord(owner, promise) ==
    [owner |-> owner, promise |-> promise, settles |-> 0, cancelled |-> "no"]

\* resolve() / reject() of the promise of utterance id: a promise settles once
Settle(p, id, outcome) ==
    [p EXCEPT ![id].promise = IF @ = "pending" THEN outcome ELSE @,
              ![id].settles = @ + 1]

\* the utterances a cancel() removes from the queue
CancelMarks(s, p, by) ==
    [u \in UtteranceIds |->
        IF u \in Range(s.queue) THEN [p[u] EXCEPT !.cancelled = by] ELSE p[u]]

\* the state of the playback state machine
StateOf(m) ==
    IF m.isPaused THEN "Paused" ELSE IF m.isPlaying THEN "Playing" ELSE "Idle"

getState(m) == [isPlaying |-> m.isPlaying, isPaused |-> m.isPaused,
                isIdle |-> ~m.isPlaying /\ ~m.isPaused]

\* lastOp records the commands and callbacks of the playback state machine; every
\* other step is recorded as "other"
Observed == {"handlePlay", "playDisabled", "handlePause", "handleStop", "onend", "onerror",
             "tick", "exportDisabled"}
OtherOp == [op |-> "other", utt |-> 0, from |-> "Idle"]
Op(name, u) ==
    IF name \in Observed THEN [op |-> name, utt |-> u, from |-> StateOf(mgr)] ELSE OtherOp

\* ---------------------------------------------------------------- initial state

\* a number in a template literal: JavaScript prints 1 as "1" and 1.5 as "1.5"
\* (the number is in tenths here)
NumberToString(v) ==
    IF v % 10 = 0 THEN ToString(v \div 10)
    ELSE ToString(v \div 10) \o "." \o ToString(v % 10)

\* a Blob: its type, its size and, for a text file, the lines that depend on the
\* arguments; the fixed part of a text file counts as one character
NoContent == [text |-> <<>>, rate |-> "", pitch |-> "", volume |-> ""]
NoBlob == [type |-> "none", size |-> 0, content |-> NoContent]

createTextFile(t, settings) ==
    [type |-> "text/plain", size |-> 1 + Len(t),
     content |-> [text   |-> t,
                  rate   |-> "- Rate: " \o NumberToString(settings.rate) \o "x",
                  pitch  |-> "- Pitch: " \o NumberToString(settings.pitch),
                  volume |-> "- Volume: " \o NumberToString(settings.volume)]]

\* new Blob(chunks): empty when the recorder delivered no data
RecordedBlob(blobEmpty) ==
    [type |-> "audio/webm", size |-> IF blobEmpty THEN 0 ELSE 1, content |-> NoContent]

\* downloadAudio rejects a missing or empty blob, and saves any other
downloadAudio(blob) == IF blob = NoBlob \/ blob.size = 0 THEN "rejected" ELSE "resolved"

\* the export in progress: text and settings are the ones handleDownload was called
\* with; failure tells why the recording of this export failed, saved the type of the
\* file this export saved
RecIdle == [phase |-> "idle", recorder |-> "none", speakTimer |-> FALSE,
            endTimer |-> FALSE, safetyTimer |-> FALSE, onstop |-> FALSE,
            utt |-> 0, tracksLive |-> FALSE,
            text |-> <<>>, blob |-> NoBlob, failure |-> "none", saved |-> "none"]

\* a recording branch without its catch block: no text file is made
RecordingFailedNoFallback(r, kind) ==
    [r EXCEPT !.phase = "savingFallback", !.blob = NoBlob, !.failure = kind]

\* the catch block of the recording branch: the text file is made and saved instead
RecordingFailed(r, kind) ==
    [r EXCEPT !.phase = "savingFallback", !.blob = createTextFile(r.text, voiceSettings),
              !.failure = kind]

Init ==
    /\ mgr = [isPlaying |-> FALSE, isPaused |-> FALSE, utterance |-> NoUtterance]
    /\ synth = [queue |-> <<>>, speaking |-> FALSE, paused |-> FALSE]
    /\ events = [u \in UtteranceIds |-> <<>>]
    /\ utts = [u \in UtteranceIds |-> NoRecord]
    /\ nextId = 0
    /\ text = <<>>
    /\ error = NoError
    /\ voiceSettings = [rate |-> 10, pitch |-> 10, volume |-> 10]
    /\ isPlaying = FALSE
    /\ isPaused = FALSE
    /\ isDownloading = FALSE
    /\ rec = RecIdle
    /\ uncaught = FALSE
    /\ player = [duration |-> estimateDuration(<<>>, 10), currentTime |-> 0,
                 progress |-> Rat(0, 1)]
    /\ http = NoExchange
    /\ lastOp = Op("init", 0)

\* utterance ids still needed by a recording that has not yet submitted its utterance
Reserved == IF rec.phase = "consent" \/ rec.speakTimer THEN 1 ELSE 0

\* ------------------------------------------------------- text and settings

handleTextChange(value) ==
    /\ IF Len(value) <= MAX_CHARACTER_LIMIT
       THEN text' = value /\ error' = NoError
       ELSE UNCHANGED <<text, error>>
    /\ player' = DurationEffect(player, text', voiceSettings.rate)
    /\ lastOp' = Op("handleTextChange", 0)
    /\ UNCHANGED <<http, mgr, synth, events, utts, nextId, voiceSettings, isPlaying, isPaused,
                   isDownloading, rec, uncaught>>

SampleText == <<"a">>

handleSampleTextSelect ==
    /\ text' = SampleText
    /\ player' = DurationEffect(player, text', voiceSettings.rate)
    /\ lastOp' = Op("handleSampleTextSelect", 0)
    /\ UNCHANGED <<http, mgr, synth, events, utts, nextId, error, voiceSettings, isPlaying,
                   isPaused, isDownloading, rec, uncaught>>

\* the settings panel is disabled while the page shows Playing
SettingsDisabled == isPlaying /\ ~isPaused

handleRateChange(v) ==
    /\ ~SettingsDisabled
    /\ voiceSettings' = [voiceSettings EXCEPT !.rate = v]
    /\ player' = DurationEffect(player, text, v)
    /\ lastOp' = Op("handleRateChange", 0)
    /\ UNCHANGED <<http, mgr, synth, events, utts, nextId, text, error, isPlaying, isPaused,
                   isDownloading, rec, uncaught>>

handlePitchChange(v) ==
    /\ ~SettingsDisabled
    /\ voiceSettings' = [voiceSettings EXCEPT !.pitch = v]
    /\ lastOp' = Op("handlePitchChange", 0)
    /\ UNCHANGED <<player, http, mgr, synth, events, utts, nextId, text, error, isPlaying, isPaused,
                   isDownloading, rec, uncaught>>

handleVolumeChange(v) ==
    /\ ~SettingsDisabled
    /\ voiceSettings' = [voiceSettings EXCEPT !.volume = v]
    /\ lastOp' = Op("handleVolumeChange", 0)
    /\ UNCHANGED <<player, http, mgr, synth, events, utts, nextId, text, error, isPlaying, isPaused,
                   isDownloading, rec, uncaught>>

\* ---------------------------------------------------------------- commands

\* handlePlay returns at once when the text is empty after trimming
PlayRejected(t) == Trim(t) = <<>>

\* speak() stops the current session first when the manager is playing
SpeakStopsFirst(m) == m.isPlaying

\* lastOp.utt is the utterance this call submitted to the engine, 0 when it submitted none
handlePlay ==
    /\ IF PlayRejected(text)
       THEN UNCHANGED <<mgr, synth, events, utts, nextId, error>>
       ELSE /\ nextId + Reserved < MaxUtterances
            /\ LET id == nextId + 1
                   options == [text |-> Trim(text), rate |-> voiceSettings.rate,
                               pitch |-> voiceSettings.pitch, volume |-> voiceSettings.volume]
                   stopFirst == SpeakStopsFirst(mgr)
                   m1 == IF stopFirst THEN MgrStop(mgr) ELSE mgr
                   s1 == IF stopFirst THEN SynthCancel(synth) ELSE synth
                   e1 == IF stopFirst THEN CancelEvents(synth, events) ELSE events
                   u1 == IF stopFirst THEN CancelMarks(synth, utts, "speak") ELSE utts
               IN  /\ error' = NoError
                   /\ mgr' = [m1 EXCEPT !.utterance = createUtterance(id, options)]
                   /\ synth' = SynthSpeak(s1, id)
                   /\ events' = e1
                   /\ utts' = [u1 EXCEPT ![id] = NewRecord("mgr", "pending")]
                   /\ nextId' = id
    /\ lastOp' = Op("handlePlay", IF synth'.queue # <<>> /\ synth' # synth
                                  THEN synth'.queue[Len(synth'.queue)] ELSE 0)
    /\ UNCHANGED <<player, http, text, voiceSettings, isPlaying, isPaused, isDownloading, rec, uncaught>>

\* pause(): only while playing and not yet paused
MgrPause(m) == IF m.isPlaying /\ ~m.isPaused THEN [m EXCEPT !.isPaused = TRUE] ELSE m
SynthPause(m, s) == IF m.isPlaying /\ ~m.isPaused THEN [s EXCEPT !.paused = TRUE] ELSE s

\* resume(): only while paused
MgrResume(m) == IF m.isPaused THEN [m EXCEPT !.isPaused = FALSE] ELSE m
SynthResume(m, s) == IF m.isPaused THEN [s EXCEPT !.paused = FALSE] ELSE s

\* handlePause chooses between resume() and pause() by the page's copy of isPaused
handlePause ==
    /\ IF isPaused
       THEN mgr' = MgrResume(mgr) /\ synth' = SynthResume(mgr, synth)
       ELSE mgr' = MgrPause(mgr) /\ synth' = SynthPause(mgr, synth)
    /\ lastOp' = Op("handlePause", 0)
    /\ UNCHANGED <<player, http, events, utts, nextId, text, error, voiceSettings, isPlaying, isPaused,
                   isDownloading, rec, uncaught>>

handleStop ==
    /\ mgr' = MgrStop(mgr)
    /\ synth' = SynthCancel(synth)
    /\ events' = CancelEvents(synth, events)
    /\ utts' = CancelMarks(synth, utts, "stop")
    /\ lastOp' = Op("handleStop", 0)
    /\ UNCHANGED <<player, http, nextId, text, error, voiceSettings, isPlaying, isPaused,
                   isDownloading, rec, uncaught>>

handleClearText ==
    /\ text # <<>>
    /\ text' = <<>>
    /\ mgr' = MgrStop(mgr)
    /\ synth' = SynthCancel(synth)
    /\ events' = CancelEvents(synth, events)
    /\ utts' = CancelMarks(synth, utts, "stop")
    /\ player' = DurationEffect(player, text', voiceSettings.rate)
    /\ lastOp' = Op("handleClearText", 0)
    /\ UNCHANGED <<http, nextId, error, voiceSettings, isPlaying, isPaused,
                   isDownloading, rec, uncaught>>

\* the 100 ms poll copies the manager's state into the page's state
updatePlaybackState ==
    /\ isPlaying' = getState(mgr).isPlaying
    /\ isPaused' = getState(mgr).isPaused
    /\ player' = ResetEffect(player, isPlaying, isPaused, isPlaying', isPaused')
    /\ lastOp' = Op("updatePlaybackState", 0)
    /\ UNCHANGED <<http, mgr, synth, events, utts, nextId, text, error, voiceSettings,
                   isDownloading, rec, uncaught>>

\* a tick that ends the session when the progress is full
TickEndsAtFull(m, progress) == IF RatLeq(Rat(100, 1), progress) THEN MgrOnEnd(m) ELSE m

\* the tick changes nothing of the manager
TickManager(m, progress) == m

\* the 100 ms interval of the player, set while the page shows Playing: the elapsed
\* time grows by a tenth of a second and the progress is computed from it
tick ==
    /\ isPlaying /\ ~isPaused
    /\ player.currentTime < MaxTicks
    /\ LET newTime == player.currentTime + 1
       IN  /\ player' = [player EXCEPT !.currentTime = newTime,
                                       !.progress = ProgressOf(newTime, player.duration)]
           /\ mgr' = TickManager(mgr, ProgressOf(newTime, player.duration))
    /\ lastOp' = Op("tick", 0)
    /\ UNCHANGED <<synth, events, utts, nextId, text, error, voiceSettings, isPlaying,
                   isPaused, isDownloading, rec, uncaught, http>>

\* ------------------------------------------------------ AudioPlayer buttons

\* every handler of the page runs only through a button of the player, which sees the
\* page's polled copy of the playback state

canPlay == Trim(text) # <<>>

handlePlayPause ==
    IF isPlaying /\ ~isPaused THEN handlePause
    ELSE IF isPaused THEN handlePause
    ELSE handlePlay

\* a press of the Play button while it is disabled reaches no handler
playDisabled ==
    /\ lastOp' = Op("playDisabled", 0)
    /\ UNCHANGED <<player, http, mgr, synth, events, utts, nextId, text, error, voiceSettings,
                   isPlaying, isPaused, isDownloading, rec, uncaught>>

PlayPauseButton == IF canPlay THEN handlePlayPause ELSE playDisabled

StopEnabled == isPlaying \/ isPaused

StopButton == StopEnabled /\ handleStop

\* ------------------------------------------------- the synthesis engine

\* the engine begins to speak the utterance at the front of its queue
SynthBegin ==
    /\ synth.queue # <<>>
    /\ ~synth.speaking
    /\ ~synth.paused
    /\ synth' = [synth EXCEPT !.speaking = TRUE]
    /\ events' = [events EXCEPT ![Head(synth.queue)] = Append(@, "start")]
    /\ lastOp' = Op("SynthBegin", Head(synth.queue))
    /\ UNCHANGED <<player, http, mgr, utts, nextId, text, error, voiceSettings, isPlaying, isPaused,
                   isDownloading, rec, uncaught>>

\* the engine is done with the front utterance: it was spoken to its end, or it failed
SynthFinish(kind) ==
    /\ synth.queue # <<>>
    /\ kind = "end" => synth.speaking /\ ~synth.paused
    /\ synth' = [synth EXCEPT !.queue = Tail(@), !.speaking = FALSE]
    /\ events' = [events EXCEPT ![Head(synth.queue)] = Append(@, kind)]
    /\ lastOp' = Op("SynthFinish", Head(synth.queue))
    /\ UNCHANGED <<player, http, mgr, utts, nextId, text, error, voiceSettings, isPlaying, isPaused,
                   isDownloading, rec, uncaught>>

\* ------------------------------------------- utterance callbacks of speak()

\* a handlePlay without its catch block: the rejection escapes
PlayNoCatch(err, unc) == [error |-> err, uncaught |-> TRUE]

\* the catch block of handlePlay: the rejection becomes the page's error text
PlayCatch(err, unc) == [error |-> SpeechError, uncaught |-> unc]

onstart(u) ==
    /\ events[u] # <<>> /\ Head(events[u]) = "start"
    /\ utts[u].owner = "mgr"
    /\ events' = [events EXCEPT ![u] = Tail(@)]
    /\ mgr' = MgrOnStart(mgr)
    /\ lastOp' = Op("onstart", u)
    /\ UNCHANGED <<player, http, synth, utts, nextId, text, error, voiceSettings, isPlaying, isPaused,
                   isDownloading, rec, uncaught>>

onend(u) ==
    /\ events[u] # <<>> /\ Head(events[u]) = "end"
    /\ utts[u].owner = "mgr"
    /\ events' = [events EXCEPT ![u] = Tail(@)]
    /\ mgr' = MgrOnEnd(mgr)
    /\ utts' = Settle(utts, u, "resolved")
    /\ lastOp' = Op("onend", u)
    /\ UNCHANGED <<player, http, synth, nextId, text, error, voiceSettings, isPlaying, isPaused,
                   isDownloading, rec, uncaught>>

onerror(u) ==
    /\ events[u] # <<>> /\ Head(events[u]) = "error"
    /\ utts[u].owner = "mgr"
    /\ events' = [events EXCEPT ![u] = Tail(@)]
    /\ mgr' = MgrOnError(mgr)
    /\ utts' = Settle(utts, u, "rejected")
    /\ IF utts[u].promise = "pending"
       THEN /\ error' = PlayCatch(error, uncaught).error
            /\ uncaught' = PlayCatch(error, uncaught).uncaught
       ELSE UNCHANGED <<error, uncaught>>
    /\ lastOp' = Op("onerror", u)
    /\ UNCHANGED <<player, http, synth, nextId, text, voiceSettings, isPlaying, isPaused,
                   isDownloading, rec>>

\* ------------------------------------------------------------------ export

\* handleDownload returns at once without text or while an export is in progress
DownloadIgnored == Trim(text) = <<>> \/ isDownloading

\* window.confirm: OK is the text file, Cancel the experimental recording
handleDownload(choice) ==
    /\ lastOp' = Op("handleDownload", 0)
    /\ IF DownloadIgnored
       THEN UNCHANGED <<isDownloading, error, rec>>
       ELSE /\ isDownloading' = TRUE
            /\ error' = NoError
            /\ IF choice = "text"
               THEN rec' = [RecIdle EXCEPT !.phase = "savingText",
                                           !.speakTimer = rec.speakTimer,
                                           !.text = Trim(text),
                                           !.blob = createTextFile(Trim(text), voiceSettings)]
               ELSE /\ nextId + Reserved < MaxUtterances
                    /\ rec' = [RecIdle EXCEPT !.phase = "consent",
                                              !.speakTimer = rec.speakTimer,
                                              !.text = Trim(text)]
    /\ UNCHANGED <<player, http, mgr, synth, events, utts, nextId, text, voiceSettings, isPlaying,
                   isPaused, uncaught>>

\* MediaRecorder.stop(): the recorder is inactive at once, its stop event follows.
\* The 1 s and safety timers only act on a recording recorder, so they are dropped.
RecorderStop(r) ==
    IF r.recorder = "recording"
    THEN [r EXCEPT !.recorder = "inactive", !.onstop = TRUE,
                   !.endTimer = FALSE, !.safetyTimer = FALSE]
    ELSE r

\* navigator.mediaDevices.getDisplayMedia settles: consent denied; a stream without
\* audio track; a stream for which new MediaRecorder or start() throws; or a stream
\* that is recorded.  The tracks of a granted stream are live.
getDisplayMedia(outcome) ==
    /\ rec.phase = "consent"
    /\ lastOp' = Op("getDisplayMedia", 0)
    /\ CASE outcome = "denied" ->
              rec' = RecordingFailed(rec, "denied")
         [] outcome = "noAudio" ->
              rec' = RecordingFailed([rec EXCEPT !.tracksLive = TRUE], "noAudio")
         [] outcome = "noRecorder" ->
              rec' = RecordingFailed([rec EXCEPT !.tracksLive = TRUE], "noRecorder")
         [] outcome = "granted" ->
              /\ ~rec.speakTimer
              /\ rec' = [rec EXCEPT !.phase = "recording", !.recorder = "recording",
                                    !.speakTimer = TRUE, !.safetyTimer = TRUE,
                                    !.tracksLive = TRUE]
    /\ UNCHANGED <<player, http, mgr, synth, events, utts, nextId, text, error, voiceSettings,
                   isPlaying, isPaused, isDownloading, uncaught>>

\* the 500 ms timer: the recording submits its own utterance to the engine
recSpeakTimer ==
    /\ rec.speakTimer
    /\ LET id == nextId + 1
       IN  /\ synth' = SynthSpeak(synth, id)
           /\ utts' = [utts EXCEPT ![id] = NewRecord("rec", "none")]
           /\ nextId' = id
           /\ rec' = [rec EXCEPT !.speakTimer = FALSE, !.utt = id]
           /\ lastOp' = Op("recSpeakTimer", id)
    /\ UNCHANGED <<player, http, mgr, events, text, error, voiceSettings, isPlaying, isPaused,
                   isDownloading, uncaught>>

\* events of the recording's utterance: no onstart; onend arms the 1 s timer;
\* onerror stops the recorder
recUtteranceEvent(u) ==
    /\ events[u] # <<>>
    /\ utts[u].owner = "rec"
    /\ events' = [events EXCEPT ![u] = Tail(@)]
    /\ lastOp' = Op("recUtteranceEvent", u)
    /\ CASE Head(events[u]) = "start" -> UNCHANGED rec
         [] Head(events[u]) = "end" ->
              rec' = IF u = rec.utt /\ rec.recorder = "recording"
                     THEN [rec EXCEPT !.endTimer = TRUE] ELSE rec
         [] Head(events[u]) = "error" ->
              rec' = IF u = rec.utt THEN RecorderStop(rec) ELSE rec
    /\ UNCHANGED <<player, http, mgr, synth, utts, nextId, text, error, voiceSettings, isPlaying,
                   isPaused, isDownloading, uncaught>>

recEndTimer ==
    /\ rec.endTimer
    /\ rec' = RecorderStop(rec)
    /\ lastOp' = Op("recEndTimer", 0)
    /\ UNCHANGED <<player, http, mgr, synth, events, utts, nextId, text, error, voiceSettings,
                   isPlaying, isPaused, isDownloading, uncaught>>

\* a safety timeout that leaves the recorder alone
SafetyTimeoutIgnored(r) == r

\* the safety timeout stops a recorder that is still recording
SafetyTimeout(r) == RecorderStop(r)

\* the safety timer (estimated duration + 10 s) fires after the 500 ms timer
recSafetyTimer ==
    /\ rec.safetyTimer
    /\ ~rec.speakTimer
    /\ rec' = [SafetyTimeout(rec) EXCEPT !.safetyTimer = FALSE]
    /\ lastOp' = Op("recSafetyTimer", 0)
    /\ UNCHANGED <<player, http, mgr, synth, events, utts, nextId, text, error, voiceSettings,
                   isPlaying, isPaused, isDownloading, uncaught>>

\* mediaRecorder.onstop: the tracks are stopped and the blob resolves the recording;
\* downloadAudio rejects an empty blob, and handleDownload then falls back to text
recorderOnStop(blobEmpty) ==
    /\ rec.onstop
    /\ LET r == [rec EXCEPT !.onstop = FALSE, !.tracksLive = FALSE]
           blob == RecordedBlob(blobEmpty)
       IN  rec' = IF rec.phase # "recording" THEN r
                  ELSE IF downloadAudio(blob) = "rejected"
                       THEN RecordingFailed(r, "emptyBlob")
                       ELSE [r EXCEPT !.phase = "savingRecording", !.blob = blob]
    /\ lastOp' = Op("recorderOnStop", 0)
    /\ UNCHANGED <<player, http, mgr, synth, events, utts, nextId, text, error, voiceSettings,
                   isPlaying, isPaused, isDownloading, uncaught>>

\* mediaRecorder.onerror: the tracks are stopped and the recording is rejected
recorderOnError ==
    /\ rec.recorder = "recording"
    /\ rec' = RecordingFailed([rec EXCEPT !.recorder = "inactive", !.tracksLive = FALSE,
                                          !.endTimer = FALSE, !.safetyTimer = FALSE],
                              "recorderError")
    /\ lastOp' = Op("recorderOnError", 0)
    /\ UNCHANGED <<player, http, mgr, synth, events, utts, nextId, text, error, voiceSettings,
                   isPlaying, isPaused, isDownloading, uncaught>>

\* a handleDownload without its finally block
FinallySkipped(downloading) == downloading

\* the finally block of handleDownload: setIsDownloading(false)
Finally(downloading) == FALSE

\* downloadAudio settles: saved, or rejected into the outer catch of handleDownload,
\* which sets the page's error text; the finally block clears isDownloading
downloadSettled ==
    /\ rec.phase \in {"savingText", "savingRecording", "savingFallback"}
    /\ IF downloadAudio(rec.blob) = "resolved"
       THEN /\ rec' = [rec EXCEPT !.phase = "idle", !.saved = rec.blob.type,
                                  !.blob = NoBlob, !.text = <<>>]
            /\ UNCHANGED error
       ELSE /\ rec' = [rec EXCEPT !.phase = "idle", !.blob = NoBlob, !.text = <<>>]
            /\ error' = DownloadError
    /\ isDownloading' = Finally(isDownloading)
    /\ lastOp' = Op("downloadSettled", 0)
    /\ UNCHANGED <<player, http, mgr, synth, events, utts, nextId, text, voiceSettings,
                   isPlaying, isPaused, uncaught>>

ExportEnabled == canPlay /\ ~isDownloading

\* a press of the Export button while it is disabled reaches no handler
exportDisabled ==
    /\ lastOp' = Op("exportDisabled", 0)
    /\ UNCHANGED <<mgr, synth, events, utts, nextId, text, error, voiceSettings,
                   isPlaying, isPaused, isDownloading, rec, uncaught, player, http>>

ExportButton ==
    IF ExportEnabled
    THEN \E choice \in {"text", "recording"} : handleDownload(choice)
    ELSE exportDisabled

\* ---------------------------------------------------------- POST requests

postTextToSpeech(body) ==
    /\ http' = [route |-> "text-to-speech", request |-> body, response |-> POST(body)]
    /\ lastOp' = Op("postTextToSpeech", 0)
    /\ UNCHANGED <<mgr, synth, events, utts, nextId, text, error, voiceSettings, isPlaying,
                   isPaused, isDownloading, rec, uncaught, player>>

postAudioGeneration(body) ==
    /\ http' = [route |-> "audio-generation", request |-> body,
                response |-> POSTAudio(body)]
    /\ lastOp' = Op("postAudioGeneration", 0)
    /\ UNCHANGED <<mgr, synth, events, utts, nextId, text, error, voiceSettings, isPlaying,
                   isPaused, isDownloading, rec, uncaught, player>>

\* ------------------------------------------------------------ specification

\* the playback state machine, the engine and the poll
Playback ==
    \/ handleSampleTextSelect
    \/ handleClearText
    \/ updatePlaybackState
    \/ PlayPauseButton
    \/ StopButton
    \/ SynthBegin
    \/ \E kind \in {"end", "error"} : SynthFinish(kind)
    \/ \E u \in UtteranceIds : onstart(u)
    \/ \E u \in UtteranceIds : onend(u)
    \/ \E u \in UtteranceIds : onerror(u)

\* the export path
Export ==
    \/ ExportButton
    \/ \E outcome \in {"denied", "noAudio", "noRecorder", "granted"} :
          getDisplayMedia(outcome)
    \/ recSpeakTimer
    \/ \E u \in UtteranceIds : recUtteranceEvent(u)
    \/ recEndTimer
    \/ recSafetyTimer
    \/ \E blobEmpty \in BOOLEAN : recorderOnStop(blobEmpty)
    \/ recorderOnError
    \/ downloadSettled

\* typing into the text area
Typing == \E value \in Texts : handleTextChange(value)

\* the settings sliders
Sliders ==
    \/ \E v \in RateValues : handleRateChange(v)
    \/ \E v \in PitchValues : handlePitchChange(v)
    \/ \E v \in VolumeValues : handleVolumeChange(v)

\* the playback state machine with typed text, under the default voice settings
Next == Playback \/ Typing

Spec == Init /\ [][Next]_vars

\* playback together with the settings sliders
NextSettings == Playback \/ Typing \/ Sliders

SpecSettings == Init /\ [][NextSettings]_vars

\* playback together with the export path
NextExport == Playback \/ Export

SpecExport == Init /\ [][NextExport]_vars

\* playback together with the progress display of the player
NextPlayer == Playback \/ tick

SpecPlayer == Init /\ [][NextPlayer]_vars

\* the two POST endpoints under every request body
NextRoute ==
    \/ \E body \in Bodies : postTextToSpeech(body)
    \/ \E body \in Bodies : postAudioGeneration(body)

SpecRoute == Init /\ [][NextRoute]_vars

\* the duration estimate of the player under typed texts and rate changes
NextEstimate ==
    \/ \E value \in EstimateTexts : handleTextChange(value)
    \/ \E v \in EstimateRates : handleRateChange(v)

SpecEstimate == Init /\ [][NextEstimate]_vars

\* the export path under the scheduling the browser guarantees: a timer that was set
\* fires, a stopped recorder delivers its stop event, and a download in progress
\* settles.  Nothing is assumed of the engine's events or of the user's answers.
FairExport ==
    /\ SpecExport
    /\ WF_vars(recSpeakTimer)
    /\ WF_vars(recSafetyTimer)
    /\ WF_vars(\E blobEmpty \in BOOLEAN : recorderOnStop(blobEmpty))
    /\ WF_vars(downloadSettled)

\* ------------------------------------------------------------------ properties

\* C1: after Play, any number of pause/resume toggles and then Stop, the playback
\* state machine is Idle (isPlaying = false and isPaused = false); a further Stop,
\* issued from Idle, leaves it Idle.
StopReturnsToIdle ==
    lastOp.op = "handleStop" => ~mgr.isPlaying /\ ~mgr.isPaused

\* a Stop issued in Paused (after Play and a PauseRequest) has ended in Idle
StopFromPausedWitness ==
    /\ lastOp.op = "handleStop"
    /\ lastOp.from = "Paused"
    /\ StateOf(mgr) = "Idle"
    /\ mgr.utterance.id # 0

\* C2: an End or Error event of an utterance that a Play issued while Playing has
\* cancelled, delivered after that Play, neither changes the state of the new
\* session nor settles the new session's Play.
StaleEventLeavesNewSession ==
    [][\A u \in UtteranceIds :
          ((onend(u) \/ onerror(u)) /\ utts[u].cancelled = "speak" /\ u # mgr.utterance.id)
          => /\ StateOf(mgr') = StateOf(mgr)
             /\ utts'[mgr.utterance.id] = utts[mgr.utterance.id]]_vars

\* C3: at most one utterance of the state machine is queued or speaking in the engine.
ManagerUtterances ==
    {i \in 1..Len(synth.queue) : utts[synth.queue[i]].owner = "mgr"}

AtMostOneManagerUtterance == Cardinality(ManagerUtterances) <= 1

\* C4: a PauseRequest issued in Playing ends in Paused and a PauseRequest issued in
\* Paused ends in Playing, so that two consecutive PauseRequests issued from Playing
\* end in Playing.
PauseRequestToggles ==
    lastOp.op = "handlePause" =>
        /\ lastOp.from = "Playing" => StateOf(mgr) = "Paused"
        /\ lastOp.from = "Paused" => StateOf(mgr) = "Playing"

\* C5: a Play whose text is empty after trimming is rejected: it submits no utterance
\* to the engine and leaves the state machine in the state it was in (Idle stays Idle).
IsBlank(t) == \A i \in 1..Len(t) : t[i] = " "

BlankPlayRejected ==
    (lastOp.op \in {"handlePlay", "playDisabled"} /\ IsBlank(text)) =>
        /\ lastOp.utt = 0
        /\ StateOf(mgr) = lastOp.from

\* Play was pressed in Idle on a text of white space only, and nothing was submitted
BlankPlayWitness ==
    /\ lastOp.op = "playDisabled"
    /\ text # <<>>
    /\ IsBlank(text)
    /\ lastOp.from = "Idle"
    /\ StateOf(mgr) = "Idle"
    /\ synth.queue = <<>>

\* C6: an Error event of the active utterance delivered in Playing or Paused takes the
\* machine to Idle, rejects the Play and sets the page's error text; nothing escapes
\* the handler.
ActiveError ==
    /\ lastOp.op = "onerror"
    /\ lastOp.utt = mgr.utterance.id
    /\ lastOp.from \in {"Playing", "Paused"}

EngineErrorSurfaces ==
    ActiveError =>
        /\ StateOf(mgr) = "Idle"
        /\ utts[lastOp.utt].promise = "rejected"
        /\ error = SpeechError
        /\ ~uncaught

\* the Error event of the active utterance arrived while the machine was Paused
EngineErrorWitness ==
    /\ ActiveError
    /\ lastOp.from = "Paused"
    /\ error = SpeechError

\* C7: the End event of the active utterance delivered in Playing takes the machine to
\* Idle and resolves the pending Play; the promise was settled by exactly one call.
ActiveEnd ==
    /\ lastOp.op = "onend"
    /\ lastOp.utt = mgr.utterance.id
    /\ lastOp.from = "Playing"

EngineCompletedResolves ==
    ActiveEnd =>
        /\ StateOf(mgr) = "Idle"
        /\ utts[lastOp.utt].promise = "resolved"
        /\ utts[lastOp.utt].settles = 1

EngineCompletedWitness ==
    /\ ActiveEnd
    /\ utts[lastOp.utt].promise = "resolved"

\* C8: the utterance a Play submits carries the trimmed text and exactly the rate,
\* pitch and volume of the voice settings, volume 0 and pitch 0 included.
UtteranceCarriesSettings ==
    (lastOp.op = "handlePlay" /\ lastOp.utt # 0) =>
        mgr.utterance = [id     |-> lastOp.utt,
                         text   |-> Trim(text),
                         rate   |-> voiceSettings.rate,
                         pitch  |-> voiceSettings.pitch,
                         volume |-> voiceSettings.volume]

\* C9: only the state machine submits utterances to the engine, so an utterance of a
\* RecordedAudio export and an utterance of the state machine are never in the
\* engine's queue together.
RecordingUtterances ==
    {i \in 1..Len(synth.queue) : utts[synth.queue[i]].owner = "rec"}

EngineDrivenByStateMachineOnly ==
    ~(RecordingUtterances # {} /\ ManagerUtterances # {})

\* C10: a Stop empties the engine's queue and, if a RecordedAudio export is recording,
\* ends that recording: after the Stop the recorder is no longer recording, or the
\* event or timer that stops it (not the safety timeout) is already under way.
RecordingBeingTerminated ==
    \/ rec.endTimer
    \/ rec.utt # 0 /\ Range(events[rec.utt]) \cap {"end", "error"} # {}

StopCancelsRecording ==
    lastOp.op = "handleStop" =>
        /\ synth.queue = <<>>
        /\ rec.recorder = "recording" => RecordingBeingTerminated

\* C11: whenever the recording of an export fails (consent withheld, no audio track,
\* recorder error, recorded blob without data), the same export request makes and
\* saves the text file instead, and the page shows no download error.
RecordingFailureFallsBack ==
    rec.failure # "none" =>
        /\ error # DownloadError
        /\ rec.phase \in {"savingFallback", "idle"}
        /\ rec.phase = "savingFallback" =>
               /\ isDownloading
               /\ rec.blob.type = "text/plain"
               /\ rec.blob.size > 0
        /\ rec.phase = "idle" => rec.saved = "text/plain"

\* a recording that ended with an empty blob was replaced by a saved text file
EmptyRecordingFallbackWitness ==
    /\ rec.failure = "emptyBlob"
    /\ rec.phase = "idle"
    /\ rec.saved = "text/plain"
    /\ ~isDownloading

\* C12: a recording that has started always terminates: once the safety timer has
\* fired the recorder is no longer recording, and the recorder stops and the export
\* settles even if the engine never delivers an End or Error event for the recording's
\* utterance.
RecordingTerminates ==
    /\ [][(rec.safetyTimer /\ ~rec'.safetyTimer) => rec'.recorder # "recording"]_vars
    /\ (rec.recorder = "recording") ~> (rec.recorder # "recording" /\ rec.phase = "idle")

\* the recorder was stopped while the recording's utterance was still in the engine's
\* queue, with no End or Error event fired for it: the safety timer stopped it
SafetyTimerStoppedWitness ==
    /\ rec.onstop
    /\ rec.recorder = "inactive"
    /\ rec.utt # 0
    /\ rec.utt \in Range(synth.queue)
    /\ events[rec.utt] = <<>>

\* C13: for a text that is empty or white space only, the estimated duration is 0 at
\* every rate.
BlankTextEstimateZero ==
    IsBlank(text) => RatEq(player.duration, Rat(0, 1))

\* C14: the estimated duration is (wordCount / (155 * rate)) * 60, where wordCount is
\* the number of words of the text, also when the text starts or ends with white
\* space.  WordCount counts the places where a word begins.
WordCount(t) ==
    Cardinality({i \in 1..Len(t) : t[i] # " " /\ (i = 1 \/ t[i - 1] = " ")})

EstimateUsesWordCount ==
    ~IsBlank(text) =>
        RatEq(player.duration, Rat(WordCount(text) * 60 * 10, 155 * voiceSettings.rate))

\* C15: for a fixed text the estimated duration at a rate is at most the estimated
\* duration at every lower rate.
EstimateDecreasesWithRate ==
    \A r \in EstimateRates :
        r < voiceSettings.rate => RatLeq(player.duration, estimateDuration(text, r))

\* the estimate shown for a text of two words at rate 2 is below the one at rate 1
FasterRateShorterWitness ==
    /\ text = <<"a", " ", "a">>
    /\ voiceSettings.rate = 20
    /\ RatEq(player.duration, Rat(2 * 60, 155 * 2))
    /\ ~RatLeq(estimateDuration(text, 10), player.duration)

\* C16: the progress value of the player is always within 0 .. 100, also when the
\* elapsed time has reached or passed the estimated duration, and the progress
\* computed for an estimated duration of 0 is 0.
ProgressWithinBounds ==
    /\ RatLeq(Rat(0, 1), player.progress)
    /\ RatLeq(player.progress, Rat(100, 1))
    /\ \A newTime \in 1..MaxTicks : RatEq(ProgressOf(newTime, Rat(0, 1)), Rat(0, 1))

\* the elapsed time has passed the estimated duration and the progress is 100
ProgressFullWitness ==
    /\ RatLeq(player.duration, Rat(player.currentTime, 10))
    /\ ~RatEq(player.duration, Rat(player.currentTime, 10))
    /\ RatEq(player.progress, Rat(100, 1))

\* C17: while the session is Paused no tick advances the elapsed time, so that on the
\* return to Playing it continues from the value it had when the pause began.
ElapsedFrozenWhilePaused ==
    lastOp.op = "tick" => lastOp.from # "Paused"

\* C18: the elapsed time is reset on every transition to Idle, so it is 0 whenever a
\* session starts (the Start event of the current utterance, which the engine is
\* speaking, takes the machine from Idle to Playing), also when the poll has not
\* observed the Idle state in between.
SessionStartsFromZero ==
    [][\A u \in UtteranceIds :
          (/\ onstart(u)
           /\ u = mgr.utterance.id
           /\ synth.queue # <<>> /\ Head(synth.queue) = u
           /\ StateOf(mgr) = "Idle")
          => player.currentTime = 0 /\ RatEq(player.progress, Rat(0, 1))]_vars

\* C19: a tick changes only the elapsed time and the progress, also the tick at which
\* the progress reaches 100; the machine leaves Playing only through a PauseRequest,
\* a Stop (the Stop button, or the stop() of clearing the text), a new Play or an
\* End / Error event of the engine.
TickIsAdvisory ==
    [][/\ tick => /\ mgr' = mgr
                  /\ synth' = synth
                  /\ isPlaying' = isPlaying
                  /\ isPaused' = isPaused
       /\ (StateOf(mgr) = "Playing" /\ StateOf(mgr') # "Playing")
              => \/ handlePause \/ handleStop \/ handlePlay \/ handleClearText
                 \/ \E u \in UtteranceIds : onend(u) \/ onerror(u)]_vars

\* the tick that brought the progress to 100 has left the machine in Playing, with
\* the utterance still in the engine
TickAtFullWitness ==
    /\ lastOp.op = "tick"
    /\ RatEq(player.progress, Rat(100, 1))
    /\ StateOf(mgr) = "Playing"
    /\ synth.speaking

\* C20: both POST endpoints validate the text, in this order: a text that is missing,
\* not a string, or empty after trimming gets 400 "Text is required and must be a
\* non-empty string"; otherwise a text longer than 5000 characters gets 400 "Text
\* must be less than 5000 characters"; a non-empty text of at most 5000 characters,
\* exactly 5000 included, is never answered with 400.
RequestTextLength ==
    IF http.request.text.type = "string" THEN RunsLength(http.request.text.runs) ELSE 0

RequestTextBlank ==
    \/ http.request.text.type # "string"
    \/ \A i \in 1..Len(http.request.text.runs) : http.request.text.runs[i][1] = " "

PostValidatesText ==
    (http.route # "none" /\ http.request.json) =>
        /\ RequestTextBlank =>
               http.response.status = 400 /\ http.response.error = TextRequired
        /\ (~RequestTextBlank /\ RequestTextLength > 5000) =>
               http.response.status = 400 /\ http.response.error = TextTooLong
        /\ (~RequestTextBlank /\ RequestTextLength <= 5000) =>
               http.response.status # 400

\* a text of exactly 5000 characters was accepted
TextAtLimitWitness ==
    /\ http.route = "text-to-speech"
    /\ http.request.text.type = "string"
    /\ ~RequestTextBlank
    /\ RequestTextLength = 5000
    /\ http.response.status = 200

\* C21: the voice settings of the page always have rate > 0, 0 <= pitch <= 2 and
\* 0 <= volume <= 1, and the settings the endpoint returns for a request body are
\* numbers within 0.1 .. 10, 0 .. 2 and 0 .. 1 (in tenths here).
SettingsWithinBounds ==
    /\ voiceSettings.rate > 0
    /\ voiceSettings.pitch \in 0..20
    /\ voiceSettings.volume \in 0..10
    /\ http.response.status = 200 =>
           /\ http.response.settings.rate.type = "number"
           /\ http.response.settings.rate.number \in 1..100
           /\ http.response.settings.pitch.type = "number"
           /\ http.response.settings.pitch.number \in 0..20
           /\ http.response.settings.volume.type = "number"
           /\ http.response.settings.volume.number \in 0..10

\* C22: the text file of an export is never empty and holds the text as it is and
\* the settings, rate and pitch with one decimal place and volume as a percentage.
OneDecimal(v) == ToString(v \div 10) \o "." \o ToString(v % 10)
Percentage(v) == ToString(v * 10) \o "%"

TextFileHoldsSettings ==
    rec.blob.type = "text/plain" =>
        /\ rec.blob.size > 0
        /\ rec.blob.content.text = rec.text
        /\ rec.blob.content.rate = "- Rate: " \o OneDecimal(voiceSettings.rate) \o "x"
        /\ rec.blob.content.pitch = "- Pitch: " \o OneDecimal(voiceSettings.pitch)
        /\ rec.blob.content.volume = "- Volume: " \o Percentage(voiceSettings.volume)

\* C23: at most one export is in progress: an Export issued while isDownloading is
\* true changes nothing and makes no file; and isDownloading is true exactly while an
\* export is in progress, so it is false again after every outcome of an export.
OneExportAtATime ==
    /\ [][(ExportButton /\ isDownloading) =>
             UNCHANGED <<rec, isDownloading, error, synth, nextId>>]_vars
    /\ [](isDownloading <=> rec.phase # "idle")

\* Export was pressed while a recording was in progress, and nothing came of it
ExportWhileRecordingWitness ==
    /\ lastOp.op = "exportDisabled"
    /\ isDownloading
    /\ rec.phase = "recording"
    /\ rec.recorder = "recording"

\* C24: once createAudioBlobWithRecording has settled, no track of the capture stream
\* it was granted is live any more.
StreamStoppedWhenSettled ==
    rec.phase \in {"savingRecording", "savingFallback", "idle"} => ~rec.tracksLive

====
